---- MODULE Spec2Model ----
(***************************************************************************)
(* The local command-channel client of oflow-ui (socket_client.rs) and the *)
(* recording-state tracker built on it (lib.rs): send_command,             *)
(* is_backend_running, toggle_recording, start_recording, stop_recording,  *)
(* get_recording_status, check_backend_status, set_shortcut, the tasks of   *)
(* the global shortcut handler and the backend launch of the setup, run as *)
(* concurrent async tasks against one Unix socket endpoint whose state the *)
(* environment changes freely.                                             *)
(*                                                                         *)
(* A task is suspended only at an .await: the lock acquisition and the     *)
(* connect, write and flush steps.  Each action below is the code from one *)
(* suspension point to the next, including the caller's code that runs     *)
(* after send_command has returned.                                        *)
(***************************************************************************)
EXTENDS Integers, Sequences, FiniteSets, TLC

\* Number of tasks: each runs one command, concurrently with the others.
NumTasks == 3

Tasks == 1..NumTasks

\* Number of tasks that run a command in the specifications whose commands
\* are not only toggles.
NumCallers == 2

Callers == {t \in Tasks : t <= NumCallers}

\* Command strings handed to send_command by a direct caller.
CommandInputs == {"start", "stop", "toggle", "pause"}

\* What is at SOCKET_PATH: nothing, a socket file whose listener has exited,
\* a listener that does not accept in time, a listener that accepts.
EndpointStates == {"absent", "stale", "busy", "live"}

\* How an awaited write or flush ends: done, io error, timeout elapsed.
IoOutcomes == {"ok", "error", "timeout"}

VARIABLES
    is_recording,   \* AppState.is_recording, the Recording Belief
    lock,           \* the task holding the Mutex around AppState, 0 when free
    endpoint,       \* state of SOCKET_PATH
    op,             \* op[t]: the command task t runs, "none" before it is invoked
    pc,             \* pc[t]: the suspension point task t is at
    command,        \* command[t]: the argument of t's send_command call
    seen,           \* seen[t]: the belief a toggle read under the lock
    steps,          \* steps[t]: the channel steps t made, each with its outcome
    sres,           \* sres[t]: what t's send_command call returned
    result,         \* result[t]: what the command returned to its caller
    wire,           \* the writes made on connections to the endpoint, in order
    beliefLog,      \* the values stored into is_recording, in order
    peak,           \* the most toggle_recording calls in progress at once
    heldAtCall,     \* heldAtCall[t]: the lock's holder when probe or status
                    \* query t was invoked, 0 when it was free
    current_shortcut,   \* AppState.current_shortcut
    settings,       \* the shortcut in ~/.oflow/settings.json, "none" without one
    bindings,       \* the key the Hyprland bindings file binds to oflow
    shortcut        \* shortcut[t]: the argument of t's set_shortcut call

\* The shortcut configuration, which the recording commands never touch.
shortcutVars == <<current_shortcut, settings, bindings, shortcut>>

vars == <<is_recording, lock, endpoint, op, pc, command, seen, steps, sres,
          result, wire, beliefLog, peak, heldAtCall, shortcutVars>>

----------------------------------------------------------------------------
(* socket_client.rs: the decisions of send_command and is_backend_running *)

\* Variant: no validation.
ValidCommandAny(c) == TRUE

\* matches!(command, "start" | "stop" | "toggle")
ValidCommand(c) == c \in {"start", "stop", "toggle"}

\* Whether a file is at SOCKET_PATH when the path is looked up.
PathState(ep) == IF ep = "absent" THEN "absent" ELSE "present"

\* Variant: the existence check always passes.
PathExistsAlways(ep) == TRUE

\* Path::new(SOCKET_PATH).exists()
PathExists(ep) == ep # "absent"

\* UnixStream::connect(SOCKET_PATH) under timeout(..)
ConnectOutcome(ep) ==
    CASE ep = "live"   -> "ok"
      [] ep = "busy"   -> "timeout"
      [] ep = "stale"  -> "refused"
      [] ep = "absent" -> "notfound"

\* Variant: a refused connection reported as the backend not running.
ConnectResultRefusedNotRunning(o) ==
    IF o = "ok" THEN "Ok"
    ELSE IF o = "refused" THEN "BackendNotRunning" ELSE "ConnectionFailed"

\* .map_err(|_| ConnectionFailed("Connection timeout"))?.map_err(|e| ConnectionFailed(..))?
ConnectResult(o) == IF o = "ok" THEN "Ok" ELSE "ConnectionFailed"

\* Variant: the io error converted by From<std::io::Error> (a bare `?`).
WriteResultFromIo(o) ==
    IF o = "ok" THEN "Ok"
    ELSE IF o = "error" THEN "ConnectionFailed" ELSE "SendFailed"

\* .map_err(|_| SendFailed("Send timeout"))?.map_err(|e| SendFailed(..))?
WriteResult(o) == IF o = "ok" THEN "Ok" ELSE "SendFailed"

\* Variant: the outcome of the flush ignored.
FlushResultIgnored(o) == "Ok"

\* .map_err(|_| SendFailed("Flush timeout"))?.map_err(|e| SendFailed(..))?
FlushResult(o) == IF o = "ok" THEN "Ok" ELSE "SendFailed"

\* Variant: a fixed token written whatever the argument.
CommandBytesFixed(c) == "start"

\* command.as_bytes(): the token write_all puts on the connection
CommandBytes(c) == c

\* Variant: only a timeout counts as not running.
ProbeResultUnlessTimeout(o) == o # "timeout"

\* timeout(500ms, connect).await.map(|r| r.is_ok()).unwrap_or(false)
ProbeResult(o) == o = "ok"

(* lib.rs: the tracker's decisions *)

\* Variant: the two commands swapped.
ToggleCommandSwapped(b) == IF b THEN "start" ELSE "stop"

\* if app_state.is_recording { "stop" } else { "start" }
ToggleCommand(b) == IF b THEN "stop" ELSE "start"

\* app_state.is_recording = !app_state.is_recording
Flip(b) == ~b

----------------------------------------------------------------------------
\* const DEFAULT_SHORTCUT: &str = "XF86Assistant"
DEFAULT_SHORTCUT == "XF86Assistant"

\* Shortcut strings handed to set_shortcut.
Shortcuts == {"XF86Assistant", "Super+I"}

\* run: settings.shortcut.unwrap_or_else(|| DEFAULT_SHORTCUT.to_string())
InitialShortcut(s) == IF s = "none" THEN DEFAULT_SHORTCUT ELSE s

\* set_shortcut: the key as written into the bindings file: an XF86 key
\* gets an empty modifier, else "Super+" becomes "SUPER, ".
HyprShortcut(s) ==
    CASE s = "XF86Assistant" -> ", XF86Assistant"
      [] s = "Super+I"       -> "SUPER, I"

\* The state run() builds when the settings file holds shortcut s.
InitWith(s) ==
    /\ is_recording = FALSE
    /\ lock = 0
    /\ endpoint \in EndpointStates
    /\ op = [t \in Tasks |-> "none"]
    /\ pc = [t \in Tasks |-> "idle"]
    /\ command = [t \in Tasks |-> ""]
    /\ seen = [t \in Tasks |-> FALSE]
    /\ steps = [t \in Tasks |-> <<>>]
    /\ sres = [t \in Tasks |-> "none"]
    /\ result = [t \in Tasks |-> <<>>]
    /\ wire = <<>>
    /\ beliefLog = <<>>
    /\ peak = 0
    /\ heldAtCall = [t \in Tasks |-> 0]
    /\ settings = s
    /\ current_shortcut = InitialShortcut(s)
    /\ bindings = HyprShortcut(InitialShortcut(s))
    /\ shortcut = [t \in Tasks |-> ""]

\* A first start: no settings file yet.
Init == InitWith("none")

\* The backend starts, stops accepting, crashes leaving its socket file, or
\* the file is removed: all outside the shell's control.
EndpointChange ==
    /\ endpoint' \in EndpointStates \ {endpoint}
    /\ UNCHANGED <<shortcutVars, heldAtCall,
                   peak, is_recording, lock, op, pc, command, seen, steps, sres,
                   result, wire, beliefLog>>
----------------------------------------------------------------------------
(* lib.rs: what each command does once its send_command call has returned r *)

\* Variant: the belief is flipped whatever send_command returned.
ToggleReturnFlipAlways(t, r) ==
    /\ is_recording' = Flip(is_recording)
    /\ beliefLog' = Append(beliefLog, [task |-> t, value |-> Flip(is_recording)])
    /\ result' = [result EXCEPT ![t] =
                    IF r = "Ok" THEN <<"Ok", is_recording'>> ELSE <<"Err", r>>]
    /\ lock' = 0

\* Variant: the guard is dropped only on the success path.
ToggleReturnLeaksLock(t, r) ==
    /\ is_recording' = IF r = "Ok" THEN Flip(is_recording) ELSE is_recording
    /\ beliefLog' = IF r = "Ok"
                    THEN Append(beliefLog, [task |-> t, value |-> Flip(is_recording)])
                    ELSE beliefLog
    /\ result' = [result EXCEPT ![t] =
                    IF r = "Ok" THEN <<"Ok", is_recording'>> ELSE <<"Err", r>>]
    /\ lock' = IF r = "Ok" THEN 0 ELSE lock

\* toggle_recording: `?` returns the error with the belief untouched, else
\* the belief is flipped, the new value returned; the guard is dropped.
ToggleReturn(t, r) ==
    /\ is_recording' = IF r = "Ok" THEN Flip(is_recording) ELSE is_recording
    /\ beliefLog' = IF r = "Ok"
                    THEN Append(beliefLog, [task |-> t, value |-> Flip(is_recording)])
                    ELSE beliefLog
    /\ result' = [result EXCEPT ![t] =
                    IF r = "Ok" THEN <<"Ok", is_recording'>> ELSE <<"Err", r>>]
    /\ lock' = 0

\* Variant: the belief is set to what the command asked for once it is sent.
ActionReturnSetsBelief(t, r) ==
    /\ result' = [result EXCEPT ![t] = IF r = "Ok" THEN <<"Ok">> ELSE <<"Err", r>>]
    /\ is_recording' = IF r = "Ok" THEN op[t] = "start_recording" ELSE is_recording
    /\ beliefLog' = IF r = "Ok"
                    THEN Append(beliefLog, [task |-> t,
                                            value |-> op[t] = "start_recording"])
                    ELSE beliefLog
    /\ lock' = lock

\* start_recording / stop_recording: Ok(()) or the error; no state is touched.
ActionReturn(t, r) ==
    /\ result' = [result EXCEPT ![t] = IF r = "Ok" THEN <<"Ok">> ELSE <<"Err", r>>]
    /\ UNCHANGED <<is_recording, beliefLog, lock>>

\* a direct send_command call: the Result itself.
SendReturn(t, r) ==
    /\ result' = [result EXCEPT ![t] = IF r = "Ok" THEN <<"Ok">> ELSE <<"Err", r>>]
    /\ UNCHANGED <<is_recording, beliefLog, lock>>

\* The value a shortcut handler stores after its send: true on a press,
\* false on a release.
HandlerValue(t) == op[t] = "shortcut_pressed"

\* Variant: the handler stores its value whatever send_command returned.
HandlerReturnStoreAlways(t, r) ==
    /\ is_recording' = HandlerValue(t)
    /\ beliefLog' = Append(beliefLog, [task |-> t, value |-> HandlerValue(t)])
    /\ result' = [result EXCEPT ![t] = IF r = "Ok" THEN <<"Ok">> ELSE <<"Err", r>>]
    /\ lock' = 0

\* The tasks spawned by the global shortcut handler: `if let Err(e) = ..`
\* logs the error, else the belief is set; the guard is dropped.
HandlerReturn(t, r) ==
    /\ is_recording' = IF r = "Ok" THEN HandlerValue(t) ELSE is_recording
    /\ beliefLog' = IF r = "Ok"
                    THEN Append(beliefLog, [task |-> t, value |-> HandlerValue(t)])
                    ELSE beliefLog
    /\ result' = [result EXCEPT ![t] = IF r = "Ok" THEN <<"Ok">> ELSE <<"Err", r>>]
    /\ lock' = 0

\* send_command returns r to the command that called it, which runs to its end.
Return(t, r) ==
    /\ sres' = [sres EXCEPT ![t] = r]
    /\ pc' = [pc EXCEPT ![t] = "done"]
    /\ CASE op[t] = "toggle_recording" -> ToggleReturn(t, r)
         [] op[t] \in {"start_recording", "stop_recording"} -> ActionReturn(t, r)
         [] op[t] \in {"shortcut_pressed", "shortcut_released"} -> HandlerReturn(t, r)
         [] OTHER -> SendReturn(t, r)

\* send_command goes on to its next await.
Proceed(t, next) ==
    /\ pc' = [pc EXCEPT ![t] = next]
    /\ UNCHANGED <<sres, result, is_recording, beliefLog, lock>>

Step(t, name, outcome) == Append(steps[t], <<name, outcome>>)

----------------------------------------------------------------------------
(* socket_client.rs: send_command *)

\* Validation and the existence check, up to the first await.
SendCheck(t) ==
    /\ pc[t] = "check"
    /\ IF ~ValidCommand(command[t])
       THEN /\ Return(t, "InvalidCommand")
            /\ UNCHANGED steps
       ELSE /\ steps' = [steps EXCEPT ![t] = Step(t, "exists", PathState(endpoint))]
            /\ IF ~PathExists(endpoint)
               THEN Return(t, "BackendNotRunning")
               ELSE Proceed(t, "connect")
    /\ UNCHANGED <<shortcutVars, heldAtCall,
                   peak, endpoint, op, command, seen, wire>>

\* Variant: a failed connect is tried once more before the error is returned.
SendConnectRetryOnce(t) ==
    /\ pc[t] = "connect"
    /\ op[t] # "check_backend_status"
    /\ LET o == ConnectOutcome(endpoint) IN
       /\ steps' = [steps EXCEPT ![t] = Step(t, "connect", o)]
       /\ IF ConnectResult(o) = "Ok"
          THEN Proceed(t, "write")
          ELSE IF Len(steps[t]) < 2
               THEN Proceed(t, "connect")
               ELSE Return(t, ConnectResult(o))
    /\ UNCHANGED <<shortcutVars, heldAtCall,
                   peak, endpoint, op, command, seen, wire>>

\* Variant: the connect is awaited without a timeout, so it does not end
\* while the listener does not accept.
SendConnectNoTimeout(t) ==
    /\ pc[t] = "connect"
    /\ op[t] # "check_backend_status"
    /\ endpoint # "busy"
    /\ LET o == ConnectOutcome(endpoint) IN
       /\ steps' = [steps EXCEPT ![t] = Step(t, "connect", o)]
       /\ IF ConnectResult(o) = "Ok"
          THEN Proceed(t, "write")
          ELSE Return(t, ConnectResult(o))
    /\ UNCHANGED <<shortcutVars, heldAtCall,
                   peak, endpoint, op, command, seen, wire>>

\* timeout(SOCKET_TIMEOUT, UnixStream::connect(SOCKET_PATH)).await
SendConnect(t) ==
    /\ pc[t] = "connect"
    /\ op[t] # "check_backend_status"
    /\ LET o == ConnectOutcome(endpoint) IN
       /\ steps' = [steps EXCEPT ![t] = Step(t, "connect", o)]
       /\ IF ConnectResult(o) = "Ok"
          THEN Proceed(t, "write")
          ELSE Return(t, ConnectResult(o))
    /\ UNCHANGED <<shortcutVars, heldAtCall,
                   peak, endpoint, op, command, seen, wire>>

\* timeout(SOCKET_TIMEOUT, stream.write_all(command_bytes)).await; a write
\* that fails or is abandoned may have put a part of the token on the wire.
\* On failure the stream is dropped as the function returns.
SendWrite(t) ==
    /\ pc[t] = "write"
    /\ \E o \in IoOutcomes :
       IF WriteResult(o) = "Ok"
       THEN /\ wire' = Append(wire, [task |-> t, token |-> CommandBytes(command[t]),
                                     whole |-> TRUE])
            /\ steps' = [steps EXCEPT ![t] = Step(t, "write", o)]
            /\ Proceed(t, "flush")
       ELSE /\ \/ wire' = wire
               \/ wire' = Append(wire, [task |-> t, token |-> CommandBytes(command[t]),
                                        whole |-> FALSE])
            /\ steps' = [steps EXCEPT ![t] =
                            Append(Step(t, "write", o), <<"close", "ok">>)]
            /\ Return(t, WriteResult(o))
    /\ UNCHANGED <<shortcutVars, heldAtCall,
                   peak, endpoint, op, command, seen>>

\* timeout(SOCKET_TIMEOUT, stream.flush()).await; drop(stream); Ok(())
SendFlush(t) ==
    /\ pc[t] = "flush"
    /\ \E o \in IoOutcomes :
       /\ steps' = [steps EXCEPT ![t] =
                       Append(Step(t, "flush", o), <<"close", "ok">>)]
       /\ Return(t, FlushResult(o))
    /\ UNCHANGED <<shortcutVars, heldAtCall,
                   peak, endpoint, op, command, seen, wire>>

\* A direct call send_command(c).
SendCall(t, c) ==
    /\ pc[t] = "idle"
    /\ op' = [op EXCEPT ![t] = "send_command"]
    /\ command' = [command EXCEPT ![t] = c]
    /\ pc' = [pc EXCEPT ![t] = "check"]
    /\ UNCHANGED <<shortcutVars, heldAtCall,
                   peak, is_recording, lock, endpoint, seen, steps, sres, result,
                   wire, beliefLog>>

----------------------------------------------------------------------------
(* socket_client.rs: is_backend_running, called by check_backend_status *)

ProbeCall(t) ==
    /\ pc[t] = "idle"
    /\ heldAtCall' = [heldAtCall EXCEPT ![t] = lock]
    /\ op' = [op EXCEPT ![t] = "check_backend_status"]
    /\ pc' = [pc EXCEPT ![t] = "probe"]
    /\ UNCHANGED <<shortcutVars, peak, is_recording, lock, endpoint, command,
                   seen, steps, sres, result, wire, beliefLog>>

\* Variant: the probe starts only once the lock is free.
ProbeCheckAfterLock(t) ==
    /\ pc[t] = "probe"
    /\ lock = 0
    /\ steps' = [steps EXCEPT ![t] = Step(t, "exists", PathState(endpoint))]
    /\ IF ~PathExists(endpoint)
       THEN /\ result' = [result EXCEPT ![t] = <<"Ok", FALSE>>]
            /\ pc' = [pc EXCEPT ![t] = "done"]
       ELSE /\ result' = result
            /\ pc' = [pc EXCEPT ![t] = "connect"]
    /\ UNCHANGED <<shortcutVars, heldAtCall,
                   peak, is_recording, lock, endpoint, op, command, seen, sres,
                   wire, beliefLog>>

\* if !Path::new(SOCKET_PATH).exists() { return false; }
ProbeCheck(t) ==
    /\ pc[t] = "probe"
    /\ steps' = [steps EXCEPT ![t] = Step(t, "exists", PathState(endpoint))]
    /\ IF ~PathExists(endpoint)
       THEN /\ result' = [result EXCEPT ![t] = <<"Ok", FALSE>>]
            /\ pc' = [pc EXCEPT ![t] = "done"]
       ELSE /\ result' = result
            /\ pc' = [pc EXCEPT ![t] = "connect"]
    /\ UNCHANGED <<shortcutVars, heldAtCall,
                   peak, is_recording, lock, endpoint, op, command, seen, sres,
                   wire, beliefLog>>

\* Variant: a connected probe writes a token before it drops the stream.
ProbeConnectPing(t) ==
    /\ pc[t] = "connect"
    /\ op[t] = "check_backend_status"
    /\ LET o == ConnectOutcome(endpoint) IN
       /\ steps' = [steps EXCEPT ![t] =
                       IF o = "ok"
                       THEN Append(Step(t, "connect", o), <<"close", "ok">>)
                       ELSE Step(t, "connect", o)]
       /\ wire' = IF o = "ok"
                  THEN Append(wire, [task |-> t, token |-> "status", whole |-> TRUE])
                  ELSE wire
       /\ result' = [result EXCEPT ![t] = <<"Ok", ProbeResult(o)>>]
    /\ pc' = [pc EXCEPT ![t] = "done"]
    /\ UNCHANGED <<shortcutVars, heldAtCall,
                   peak, is_recording, lock, endpoint, op, command, seen, sres,
                   beliefLog>>

\* timeout(500ms, UnixStream::connect(SOCKET_PATH)).await; the stream, if
\* any, is dropped at once.
ProbeConnect(t) ==
    /\ pc[t] = "connect"
    /\ op[t] = "check_backend_status"
    /\ LET o == ConnectOutcome(endpoint) IN
       /\ steps' = [steps EXCEPT ![t] =
                       IF o = "ok"
                       THEN Append(Step(t, "connect", o), <<"close", "ok">>)
                       ELSE Step(t, "connect", o)]
       /\ result' = [result EXCEPT ![t] = <<"Ok", ProbeResult(o)>>]
    /\ pc' = [pc EXCEPT ![t] = "done"]
    /\ UNCHANGED <<shortcutVars, heldAtCall,
                   peak, is_recording, lock, endpoint, op, command, seen, sres,
                   wire, beliefLog>>

----------------------------------------------------------------------------
(* lib.rs: the commands of the shell *)

\* The toggle_recording calls invoked and not yet returned.
InProgress ==
    Cardinality({u \in Tasks : op[u] = "toggle_recording" /\ pc[u] # "done"})

\* toggle_recording is invoked and waits at state.lock().await
ToggleCall(t) ==
    /\ pc[t] = "idle"
    /\ peak' = IF InProgress + 1 > peak THEN InProgress + 1 ELSE peak
    /\ op' = [op EXCEPT ![t] = "toggle_recording"]
    /\ pc' = [pc EXCEPT ![t] = "lock"]
    /\ UNCHANGED <<shortcutVars, heldAtCall,
                   is_recording, lock, endpoint, command, seen, steps, sres,
                   result, wire, beliefLog>>

\* Variant: the belief is read without waiting for the lock to be free.
ToggleLockNoWait(t) ==
    /\ pc[t] = "lock"
    /\ op[t] = "toggle_recording"
    /\ lock' = t
    /\ seen' = [seen EXCEPT ![t] = is_recording]
    /\ command' = [command EXCEPT ![t] = ToggleCommand(is_recording)]
    /\ pc' = [pc EXCEPT ![t] = "check"]
    /\ UNCHANGED <<shortcutVars, heldAtCall,
                   peak, is_recording, endpoint, op, steps, sres, result, wire,
                   beliefLog>>

\* Variant: the guard is dropped once the belief is read, before the send.
ToggleLockDropsGuard(t) ==
    /\ pc[t] = "lock"
    /\ op[t] = "toggle_recording"
    /\ lock = 0
    /\ lock' = 0
    /\ seen' = [seen EXCEPT ![t] = is_recording]
    /\ command' = [command EXCEPT ![t] = ToggleCommand(is_recording)]
    /\ pc' = [pc EXCEPT ![t] = "check"]
    /\ UNCHANGED <<shortcutVars, heldAtCall,
                   peak, is_recording, endpoint, op, steps, sres, result, wire,
                   beliefLog>>

\* The lock is granted; the belief is read and the command chosen; the
\* guard stays alive across send_command(command).await
ToggleLock(t) ==
    /\ pc[t] = "lock"
    /\ op[t] = "toggle_recording"
    /\ lock = 0
    /\ lock' = t
    /\ seen' = [seen EXCEPT ![t] = is_recording]
    /\ command' = [command EXCEPT ![t] = ToggleCommand(is_recording)]
    /\ pc' = [pc EXCEPT ![t] = "check"]
    /\ UNCHANGED <<shortcutVars, heldAtCall,
                   peak, is_recording, endpoint, op, steps, sres, result, wire,
                   beliefLog>>

\* start_recording: send_command("start")
StartCall(t) ==
    /\ pc[t] = "idle"
    /\ op' = [op EXCEPT ![t] = "start_recording"]
    /\ command' = [command EXCEPT ![t] = "start"]
    /\ pc' = [pc EXCEPT ![t] = "check"]
    /\ UNCHANGED <<shortcutVars, heldAtCall,
                   peak, is_recording, lock, endpoint, seen, steps, sres, result,
                   wire, beliefLog>>

\* stop_recording: send_command("stop")
StopCall(t) ==
    /\ pc[t] = "idle"
    /\ op' = [op EXCEPT ![t] = "stop_recording"]
    /\ command' = [command EXCEPT ![t] = "stop"]
    /\ pc' = [pc EXCEPT ![t] = "check"]
    /\ UNCHANGED <<shortcutVars, heldAtCall,
                   peak, is_recording, lock, endpoint, seen, steps, sres, result,
                   wire, beliefLog>>

\* get_recording_status is invoked and waits at state.lock().await
StatusCall(t) ==
    /\ pc[t] = "idle"
    /\ heldAtCall' = [heldAtCall EXCEPT ![t] = lock]
    /\ op' = [op EXCEPT ![t] = "get_recording_status"]
    /\ pc' = [pc EXCEPT ![t] = "lock"]
    /\ UNCHANGED <<shortcutVars, peak, is_recording, lock, endpoint, command,
                   seen, steps, sres, result, wire, beliefLog>>

\* Variant: the value the belief had at startup is returned.
StatusLockInitial(t) ==
    /\ pc[t] = "lock"
    /\ op[t] = "get_recording_status"
    /\ lock = 0
    /\ result' = [result EXCEPT ![t] = <<"Ok", FALSE>>]
    /\ pc' = [pc EXCEPT ![t] = "done"]
    /\ UNCHANGED <<shortcutVars, heldAtCall,
                   peak, is_recording, lock, endpoint, op, command, seen, steps,
                   sres, wire, beliefLog>>

\* Variant: the belief is read without waiting for the lock to be free.
StatusLockNoWait(t) ==
    /\ pc[t] = "lock"
    /\ op[t] = "get_recording_status"
    /\ result' = [result EXCEPT ![t] = <<"Ok", is_recording>>]
    /\ pc' = [pc EXCEPT ![t] = "done"]
    /\ UNCHANGED <<shortcutVars, heldAtCall,
                   peak, is_recording, lock, endpoint, op, command, seen, steps,
                   sres, wire, beliefLog>>

\* The lock is granted, the belief returned, the guard dropped.
StatusLock(t) ==
    /\ pc[t] = "lock"
    /\ op[t] = "get_recording_status"
    /\ lock = 0
    /\ result' = [result EXCEPT ![t] = <<"Ok", is_recording>>]
    /\ pc' = [pc EXCEPT ![t] = "done"]
    /\ UNCHANGED <<shortcutVars, heldAtCall,
                   peak, is_recording, lock, endpoint, op, command, seen, steps,
                   sres, wire, beliefLog>>

----------------------------------------------------------------------------
(* lib.rs: the global shortcut handler (release builds) *)

\* ShortcutState::Pressed: a task is spawned and waits at state.lock().await
PressCall(t) ==
    /\ pc[t] = "idle"
    /\ op' = [op EXCEPT ![t] = "shortcut_pressed"]
    /\ pc' = [pc EXCEPT ![t] = "lock"]
    /\ UNCHANGED <<shortcutVars, heldAtCall, peak, is_recording, lock, endpoint,
                   command, seen, steps, sres, result, wire, beliefLog>>

\* ShortcutState::Released: a task is spawned and waits at state.lock().await
ReleaseCall(t) ==
    /\ pc[t] = "idle"
    /\ op' = [op EXCEPT ![t] = "shortcut_released"]
    /\ pc' = [pc EXCEPT ![t] = "lock"]
    /\ UNCHANGED <<shortcutVars, heldAtCall, peak, is_recording, lock, endpoint,
                   command, seen, steps, sres, result, wire, beliefLog>>

\* Variant: the handler sends its command whatever the belief is.
HandlerLockUnguarded(t) ==
    /\ pc[t] = "lock"
    /\ op[t] \in {"shortcut_pressed", "shortcut_released"}
    /\ lock = 0
    /\ seen' = [seen EXCEPT ![t] = is_recording]
    /\ lock' = t
    /\ command' = [command EXCEPT ![t] = IF HandlerValue(t) THEN "start" ELSE "stop"]
    /\ pc' = [pc EXCEPT ![t] = "check"]
    /\ UNCHANGED <<shortcutVars, heldAtCall, peak, is_recording, endpoint, op,
                   steps, sres, result, wire, beliefLog>>

\* Spawned tasks are polled by the runtime's worker threads in no fixed
\* order, so the lock may go to a release task before the press task
\* spawned ahead of it.
\* The lock is granted to a handler task: a press with the belief false
\* goes on to send_command("start"), a release with the belief true to
\* send_command("stop"), the guard alive across the await; otherwise the
\* task ends and drops the guard.
HandlerLock(t) ==
    /\ pc[t] = "lock"
    /\ op[t] \in {"shortcut_pressed", "shortcut_released"}
    /\ lock = 0
    /\ seen' = [seen EXCEPT ![t] = is_recording]
    /\ IF is_recording # HandlerValue(t)
       THEN /\ lock' = t
            /\ command' = [command EXCEPT ![t] =
                              IF HandlerValue(t) THEN "start" ELSE "stop"]
            /\ pc' = [pc EXCEPT ![t] = "check"]
       ELSE /\ lock' = 0
            /\ command' = command
            /\ pc' = [pc EXCEPT ![t] = "done"]
    /\ UNCHANGED <<shortcutVars, heldAtCall, peak, is_recording, endpoint, op,
                   steps, sres, result, wire, beliefLog>>

----------------------------------------------------------------------------
(* lib.rs: set_shortcut *)

\* How the work on the bindings file ends: done, or the early return taken.
BindingsOutcomes == {"ok", "no_home", "missing", "read_failed", "write_failed"}

\* How write_settings ends.
SettingsOutcomes == {"ok", "failed"}

\* set_shortcut(s) up to state.lock().await: the bindings file is rewritten
\* with the new key (the result of `hyprctl reload` is only logged), or an
\* error is returned with nothing changed.
SetShortcutCall(t, s) ==
    /\ pc[t] = "idle"
    /\ op' = [op EXCEPT ![t] = "set_shortcut"]
    /\ shortcut' = [shortcut EXCEPT ![t] = s]
    /\ \E o \in BindingsOutcomes :
         IF o = "ok"
         THEN /\ bindings' = HyprShortcut(s)
              /\ pc' = [pc EXCEPT ![t] = "lock"]
              /\ result' = result
         ELSE /\ bindings' = bindings
              /\ pc' = [pc EXCEPT ![t] = "done"]
              /\ result' = [result EXCEPT ![t] = <<"Err", o>>]
    /\ UNCHANGED <<current_shortcut, settings, heldAtCall, peak, is_recording,
                   lock, endpoint, command, seen, steps, sres, wire, beliefLog>>

\* The lock is granted: current_shortcut is set, then the settings file is
\* read, given the shortcut and written; `?` returns its error; the guard is
\* dropped as the function returns.
SetShortcutLock(t) ==
    /\ pc[t] = "lock"
    /\ op[t] = "set_shortcut"
    /\ lock = 0
    /\ current_shortcut' = shortcut[t]
    /\ \E o \in SettingsOutcomes :
         IF o = "ok"
         THEN /\ settings' = shortcut[t]
              /\ result' = [result EXCEPT ![t] = <<"Ok">>]
         ELSE /\ settings' = settings
              /\ result' = [result EXCEPT ![t] = <<"Err", "settings_write_failed">>]
    /\ pc' = [pc EXCEPT ![t] = "done"]
    /\ UNCHANGED <<bindings, shortcut, heldAtCall, peak, is_recording, lock,
                   endpoint, op, command, seen, steps, sres, wire, beliefLog>>

----------------------------------------------------------------------------
\* The steps of a send_command call in progress, whichever command made it.
SendStep(t) ==
    \/ SendCheck(t)
    \/ SendConnect(t)
    \/ SendWrite(t)
    \/ SendFlush(t)

\* The shell: the commands registered with the invoke handler.
Next ==
    \/ EndpointChange
    \/ \E t \in Callers :
        \/ ToggleCall(t)
        \/ ToggleLock(t)
        \/ StartCall(t)
        \/ StopCall(t)
        \/ StatusCall(t)
        \/ StatusLock(t)
        \/ ProbeCall(t)
        \/ ProbeCheck(t)
        \/ ProbeConnect(t)
        \/ SendStep(t)

Spec == Init /\ [][Next]_vars

\* Concurrent toggle_recording calls only.
NextToggle ==
    \/ EndpointChange
    \/ \E t \in Tasks :
        \/ ToggleCall(t)
        \/ ToggleLock(t)
        \/ SendStep(t)

SpecToggle == Init /\ [][NextToggle]_vars

\* The socket client alone: send_command called with any string, and
\* is_backend_running.
NextSender ==
    \/ EndpointChange
    \/ \E t \in Callers :
        \/ \E c \in CommandInputs : SendCall(t, c)
        \/ SendStep(t)
        \/ ProbeCall(t)
        \/ ProbeCheck(t)
        \/ ProbeConnect(t)

SpecSender == Init /\ [][NextSender]_vars

\* send_command calls whose every step ends in time: the check runs at
\* once, and each of connect, write and flush is awaited under
\* timeout(SOCKET_TIMEOUT, ..), which the runtime's timer ends after 2 s if
\* the step has not ended by itself.
\* One accepted and one rejected command: past validation the steps of a
\* call do not depend on the token.
SendInputs == {"start", "pause"}

NextSend ==
    \/ EndpointChange
    \/ \E t \in Callers :
        \/ \E c \in SendInputs : SendCall(t, c)
        \/ SendStep(t)

SpecSendFair ==
    /\ Init
    /\ [][NextSend]_vars
    /\ \A t \in Callers : WF_vars(SendStep(t))

\* The whole shell: the commands of the invoke handler and the tasks of the
\* global shortcut handler, against an endpoint in any one state.
NextShell ==
    \E t \in Callers :
        \/ ToggleCall(t)
        \/ ToggleLock(t)
        \/ StartCall(t)
        \/ StopCall(t)
        \/ StatusCall(t)
        \/ StatusLock(t)
        \/ ProbeCall(t)
        \/ ProbeCheck(t)
        \/ ProbeConnect(t)
        \/ PressCall(t)
        \/ ReleaseCall(t)
        \/ HandlerLock(t)
        \/ \E s \in Shortcuts : SetShortcutCall(t, s)
        \/ SetShortcutLock(t)
        \/ SendStep(t)

SpecShell == Init /\ [][NextShell]_vars

\* set_shortcut calls, with toggles competing for the same lock, started
\* with any settings file.
NextShortcut ==
    \/ \E t \in Callers :
        \/ \E s \in Shortcuts : SetShortcutCall(t, s)
        \/ SetShortcutLock(t)
        \/ ToggleCall(t)
        \/ ToggleLock(t)
        \/ SendStep(t)

SpecShortcut ==
    /\ \E s \in Shortcuts \cup {"none"} : InitWith(s)
    /\ [][NextShortcut]_vars

\* Concurrent toggle_recording and get_recording_status calls under fair
\* scheduling: every step of a send ends in time (the check runs at once,
\* connect, write and flush are under timeout(SOCKET_TIMEOUT, ..)), and
\* a waiter of tokio's Mutex is granted the lock once it stays free.
NextLock ==
    \/ EndpointChange
    \/ \E t \in Callers :
        \/ ToggleCall(t)
        \/ ToggleLock(t)
        \/ StatusCall(t)
        \/ StatusLock(t)
        \/ SendStep(t)

\* The step a pending toggle or status call takes next.
LockStep(t) == ToggleLock(t) \/ StatusLock(t) \/ SendStep(t)

SpecLockFair ==
    /\ Init
    /\ [][NextLock]_vars
    /\ \A t \in Callers : WF_vars(LockStep(t))

\* How the launch of a backend ends: the sidecar is spawned, or after its
\* failure the development backend is spawned, or that fails too (logged).
LaunchOutcomes == {"sidecar", "development", "failed"}

\* Variant: a backend is launched unless one accepts connections.
StartupLaunchUnlessLive(t) ==
    /\ pc[t] = "idle"
    /\ \A u \in Tasks : op[u] = "none"
    /\ op' = [op EXCEPT ![t] = "setup"]
    /\ pc' = [pc EXCEPT ![t] = "done"]
    /\ steps' = [steps EXCEPT ![t] = Step(t, "exists", PathState(endpoint))]
    /\ IF endpoint # "live"
       THEN \E o \in LaunchOutcomes :
                result' = [result EXCEPT ![t] = <<"Launch", o>>]
       ELSE result' = [result EXCEPT ![t] = <<"Skip">>]
    /\ UNCHANGED <<shortcutVars, heldAtCall, peak, is_recording, lock, endpoint,
                   command, seen, sres, wire, beliefLog>>

\* The end of run's setup closure, before any command can be invoked:
\* if !socket_path.exists() { start_sidecar_backend or, failing that,
\* start_development_backend } else { "Backend already running" }
Startup(t) ==
    /\ pc[t] = "idle"
    /\ \A u \in Tasks : op[u] = "none"
    /\ op' = [op EXCEPT ![t] = "setup"]
    /\ pc' = [pc EXCEPT ![t] = "done"]
    /\ steps' = [steps EXCEPT ![t] = Step(t, "exists", PathState(endpoint))]
    /\ IF ~PathExists(endpoint)
       THEN \E o \in LaunchOutcomes :
                result' = [result EXCEPT ![t] = <<"Launch", o>>]
       ELSE result' = [result EXCEPT ![t] = <<"Skip">>]
    /\ UNCHANGED <<shortcutVars, heldAtCall, peak, is_recording, lock, endpoint,
                   command, seen, sres, wire, beliefLog>>

\* The setup closure has run.
Started == \E t \in Tasks : op[t] = "setup"

\* A backend, launched by the shell or by anyone else, binds the socket
\* (replacing a file left behind) and listens.
BackendStart ==
    /\ endpoint \in {"absent", "stale"}
    /\ endpoint' \in {"live", "busy"}
    /\ UNCHANGED <<shortcutVars, heldAtCall,
                   peak, is_recording, lock, op, pc, command, seen, steps, sres,
                   result, wire, beliefLog>>

\* The shell from its start: the setup, then commands, with no backend
\* leaving once it has started.
NextStartup ==
    \/ BackendStart
    \/ \E t \in Tasks :
        \/ Startup(t)
        \/ Started /\ StartCall(t)
        \/ Started /\ StopCall(t)
        \/ Started /\ ProbeCall(t)
        \/ ProbeCheck(t)
        \/ ProbeConnect(t)
        \/ SendStep(t)

SpecStartup == Init /\ [][NextStartup]_vars

\* The shortcut key is held down: a press event has come without its release.
KeyDown ==
    Cardinality({t \in Tasks : op[t] = "shortcut_pressed"})
      > Cardinality({t \in Tasks : op[t] = "shortcut_released"})

\* The key goes down: the handler is called with ShortcutState::Pressed.
KeyPress(t) == ~KeyDown /\ PressCall(t)

\* The key goes up: the handler is called with ShortcutState::Released.
KeyRelease(t) == KeyDown /\ ReleaseCall(t)

\* The shortcut key pressed and released in turn, each event spawning its
\* handler task.
NextKey ==
    \/ EndpointChange
    \/ \E t \in Tasks :
        \/ KeyPress(t)
        \/ KeyRelease(t)
        \/ HandlerLock(t)
        \/ SendStep(t)

SpecKey == Init /\ [][NextKey]_vars

----------------------------------------------------------------------------
(* Properties of the tracker *)

\* No send_command call has failed so far: the backend has accepted every
\* connection, write and flush made.
Responsive == \A t \in Tasks : sres[t] \in {"none", "Ok"}

\* The writes task t has completed on the wire.
WholeWrites(t) == {i \in 1..Len(wire) : wire[i].task = t /\ wire[i].whole}

\* C1: while the backend accepts every send, the commands sent by concurrent
\* toggle_recording calls are start, stop, start, ... from belief false, no
\* two consecutive ones are equal, each returned toggle has sent exactly one,
\* and the i-th value stored into the belief is the one the i-th command
\* asks for (true for start, false for stop), stored by the task that sent it.
C1_SerializedToggles ==
    Responsive =>
      /\ \A i \in 1..Len(wire) :
            /\ wire[i].whole
            /\ wire[i].token = IF i % 2 = 1 THEN "start" ELSE "stop"
      /\ \A i \in 1..(Len(wire) - 1) : wire[i].token # wire[i + 1].token
      /\ Len(wire) = Cardinality({t \in Tasks : pc[t] \in {"flush", "done"}})
      /\ Len(beliefLog) = Cardinality({t \in Tasks : pc[t] = "done"})
      /\ \A t \in Tasks : pc[t] = "done" => Cardinality(WholeWrites(t)) = 1
      /\ \A i \in 1..Len(beliefLog) :
            /\ beliefLog[i].task = wire[i].task
            /\ beliefLog[i].value = (wire[i].token = "start")
      /\ is_recording = (Len(beliefLog) % 2 = 1)

\* All NumTasks toggles were in progress at once and all have returned Ok.
C1_Witness ==
    /\ peak = NumTasks
    /\ \A t \in Tasks : pc[t] = "done" /\ sres[t] = "Ok"
    /\ Len(wire) = NumTasks

\* C2: the step in which a toggle_recording call returns after a failed
\* send_command leaves the belief as it was, equal to the value the call
\* read, and returns that error; the error is one of the three channel
\* errors.
C2_FailedToggleKeepsBelief ==
    [][\A t \in Tasks :
          (op[t] = "toggle_recording" /\ pc[t] # "done" /\ pc'[t] = "done"
              /\ sres'[t] # "Ok")
            => /\ sres'[t] \in {"BackendNotRunning", "ConnectionFailed", "SendFailed"}
               /\ is_recording' = is_recording
               /\ is_recording' = seen[t]
               /\ result'[t] = <<"Err", sres'[t]>>
               /\ beliefLog' = beliefLog]_vars

\* A toggle that read belief true has failed with SendFailed, and the belief
\* is still true.
C2_Witness ==
    \E t \in Tasks :
        /\ op[t] = "toggle_recording" /\ pc[t] = "done"
        /\ seen[t] /\ is_recording
        /\ result[t] = <<"Err", "SendFailed">>

\* The second value stored into the belief, when toggles stored the first two.
TwoToggles ==
    /\ Len(beliefLog) = 2
    /\ \A i \in 1..2 : op[beliefLog[i].task] = "toggle_recording"

\* C3: a toggle reads the belief b under the lock and sends stop if b, start
\* if not; the step in which it returns after a successful send stores not-b
\* and returns Ok(not-b), its token having been written whole.  From belief
\* false, the first two successful toggles send start then stop, return
\* Ok(true) then Ok(false), and the belief is false again.
C3_ToggleFlips ==
    /\ [][\A t \in Tasks :
            /\ (op[t] = "toggle_recording" /\ pc[t] = "lock" /\ pc'[t] # "lock")
                 => /\ seen'[t] = is_recording
                    /\ command'[t] = IF is_recording THEN "stop" ELSE "start"
            /\ (op[t] = "toggle_recording" /\ pc[t] # "done" /\ pc'[t] = "done"
                    /\ sres'[t] = "Ok")
                 => /\ is_recording' = ~seen[t]
                    /\ result'[t] = <<"Ok", ~seen[t]>>
                    /\ \E i \in WholeWrites(t) :
                          wire[i].token = IF seen[t] THEN "stop" ELSE "start"]_vars
    /\ [](TwoToggles =>
            LET a == beliefLog[1].task
                b == beliefLog[2].task
            IN  /\ result[a] = <<"Ok", TRUE>>
                /\ result[b] = <<"Ok", FALSE>>
                /\ is_recording = FALSE
                /\ \E i \in WholeWrites(a) : \E j \in WholeWrites(b) :
                      i < j /\ wire[i].token = "start" /\ wire[j].token = "stop")

\* Two toggles have succeeded one after the other and the belief is false.
C3_Witness ==
    /\ TwoToggles
    /\ is_recording = FALSE
    /\ \A i \in 1..2 : pc[beliefLog[i].task] = "done" /\ sres[beliefLog[i].task] = "Ok"

----------------------------------------------------------------------------
(* Properties of the socket client *)

\* The tasks that called send_command, directly or through a command.
Senders == {t \in Tasks : op[t] \notin {"none", "check_backend_status",
                                        "get_recording_status"}}

Probes == {t \in Tasks : op[t] = "check_backend_status"}

\* The writes, whole or partial, task t has made on the wire.
Writes(t) == {i \in 1..Len(wire) : wire[i].task = t}

\* The names of the channel steps t has made, in order.
StepNames(t) == [i \in 1..Len(steps[t]) |-> steps[t][i][1]]

\* C4: a send_command call with a string outside {start, stop, toggle} makes
\* no channel step (no existence check, connect, write) and returns
\* InvalidCommand, in every state of the endpoint.
C4_InvalidCommandNoIO ==
    \A t \in Senders :
        command[t] \notin {"start", "stop", "toggle"}
          => /\ steps[t] = <<>>
             /\ Writes(t) = {}
             /\ pc[t] \in {"check", "done"}
             /\ pc[t] = "done" => /\ sres[t] = "InvalidCommand"
                                  /\ result[t] = <<"Err", "InvalidCommand">>

\* send_command("pause") has returned InvalidCommand with a live endpoint.
C4_Witness ==
    \E t \in Senders :
        /\ command[t] = "pause" /\ pc[t] = "done"
        /\ sres[t] = "InvalidCommand" /\ endpoint = "live"

\* C5: when the path is absent at the existence check, that check is the
\* only channel step of the call: send_command returns BackendNotRunning
\* and is_backend_running returns false, neither having tried to connect.
C5_AbsentPathFailsFast ==
    \A t \in Tasks :
        (steps[t] # <<>> /\ steps[t][1] = <<"exists", "absent">>)
          => /\ StepNames(t) = <<"exists">>
             /\ Writes(t) = {}
             /\ pc[t] = "done"
             /\ t \in Senders => /\ sres[t] = "BackendNotRunning"
                                 /\ result[t] = <<"Err", "BackendNotRunning">>
             /\ t \in Probes => result[t] = <<"Ok", FALSE>>

\* A send_command call and a probe have both met an absent path.
C5_Witness ==
    \E t \in Senders : \E u \in Probes :
        /\ steps[t] = <<(<<"exists", "absent">>)>> /\ sres[t] = "BackendNotRunning"
        /\ steps[u] = <<(<<"exists", "absent">>)>> /\ result[u] = <<"Ok", FALSE>>

\* C6 as stated: every token written is start or stop, and a call with the
\* token toggle returns InvalidCommand.
C6_OnlyStartStopWritten ==
    /\ \A i \in 1..Len(wire) : wire[i].token \in {"start", "stop"}
    /\ \A t \in Senders :
          (command[t] = "toggle" /\ pc[t] = "done") => sres[t] = "InvalidCommand"

\* C6 as amended: every token written (in whole or in part) is the argument
\* of the call that wrote it and is one of start, stop, toggle; a call with
\* the token toggle passes validation, so it never returns InvalidCommand
\* and returns Ok only with toggle written whole.
C6_WrittenTokenIsValidArgument ==
    /\ \A i \in 1..Len(wire) :
          /\ wire[i].token = command[wire[i].task]
          /\ wire[i].token \in {"start", "stop", "toggle"}
    /\ \A t \in Senders :
          (command[t] = "toggle" /\ pc[t] = "done")
            => /\ sres[t] # "InvalidCommand"
               /\ sres[t] = "Ok" =>
                     \E i \in Writes(t) : wire[i].whole /\ wire[i].token = "toggle"

\* send_command("toggle") has returned Ok with toggle on the wire.
C6_Witness ==
    \E t \in Senders :
        /\ command[t] = "toggle" /\ sres[t] = "Ok"
        /\ \E i \in Writes(t) : wire[i].whole /\ wire[i].token = "toggle"

\* C7: send_command has returned Ok only if its channel steps were, in this
\* order, the existence check finding the path, the connect, the write and
\* the flush, each ended ok (none timed out), then the close; its token was
\* written whole exactly once; and no call ever makes a step other than
\* these five (nothing is read from the connection).
C7_OkAfterAllStepsInOrder ==
    \A t \in Senders :
        /\ \A i \in 1..Len(steps[t]) :
              steps[t][i][1] \in {"exists", "connect", "write", "flush", "close"}
        /\ sres[t] = "Ok"
             => /\ steps[t] = << <<"exists", "present">>, <<"connect", "ok">>,
                                <<"write", "ok">>, <<"flush", "ok">>,
                                <<"close", "ok">> >>
                /\ Cardinality(Writes(t)) = 1
                /\ \A i \in Writes(t) : wire[i].whole /\ wire[i].token = command[t]

\* send_command("stop") has returned Ok.
C7_Witness ==
    \E t \in Senders :
        /\ command[t] = "stop" /\ sres[t] = "Ok" /\ pc[t] = "done"
        /\ Len(steps[t]) = 5

\* C8: when the existence check found the path and the connect then timed
\* out, was refused or found the path gone, send_command returns
\* ConnectionFailed, the connect is its last step and it has written nothing.
C8_ConnectFailure ==
    \A t \in Senders :
        (Len(steps[t]) >= 2 /\ steps[t][1] = <<"exists", "present">>
            /\ steps[t][2][1] = "connect"
            /\ steps[t][2][2] \in {"timeout", "refused", "notfound"})
          => /\ sres[t] = "ConnectionFailed"
             /\ result[t] = <<"Err", "ConnectionFailed">>
             /\ StepNames(t) = <<"exists", "connect">>
             /\ Writes(t) = {}

\* One call was refused by a stale socket file and one timed out.
C8_Witness ==
    \E t \in Senders : \E u \in Senders :
        /\ steps[t] = << <<"exists", "present">>, <<"connect", "refused">> >>
        /\ steps[u] = << <<"exists", "present">>, <<"connect", "timeout">> >>
        /\ sres[t] = "ConnectionFailed" /\ sres[u] = "ConnectionFailed"

\* C9: after a successful connect, a write or a flush that timed out or
\* failed makes send_command return SendFailed, and no flush follows a
\* failed write.
C9_SendFailure ==
    \A t \in Senders :
        \A i \in 1..Len(steps[t]) :
            (steps[t][i][1] \in {"write", "flush"} /\ steps[t][i][2] # "ok")
              => /\ steps[t][2] = <<"connect", "ok">>
                 /\ sres[t] = "SendFailed"
                 /\ result[t] = <<"Err", "SendFailed">>
                 /\ steps[t][i][1] = "write"
                      => \A j \in 1..Len(steps[t]) : steps[t][j][1] # "flush"

\* One call failed at a write that returned an error, one at a flush that
\* timed out.
C9_Witness ==
    \E t \in Senders : \E u \in Senders :
        /\ StepNames(t) = <<"exists", "connect", "write", "close">>
        /\ steps[t][3] = <<"write", "error">> /\ sres[t] = "SendFailed"
        /\ StepNames(u) = <<"exists", "connect", "write", "flush", "close">>
        /\ steps[u][4] = <<"flush", "timeout">> /\ sres[u] = "SendFailed"

\* C10: a returned probe is true exactly when its existence check found the
\* path and its connect succeeded; a connect that was refused (stale file),
\* timed out or found the path gone gives false.
C10_ProbeTrueIffConnected ==
    \A t \in Probes :
        pc[t] = "done"
          => /\ result[t] =
                  <<"Ok", /\ steps[t][1] = <<"exists", "present">>
                          /\ Len(steps[t]) >= 2
                          /\ steps[t][2] = <<"connect", "ok">> >>
             /\ Writes(t) = {}

\* One probe met a live listener and returned true, one met a stale socket
\* file and returned false.
C10_Witness ==
    \E t \in Probes : \E u \in Probes :
        /\ pc[t] = "done" /\ pc[u] = "done"
        /\ steps[t] = << <<"exists", "present">>, <<"connect", "ok">>,
                         <<"close", "ok">> >>
        /\ result[t] = <<"Ok", TRUE>>
        /\ steps[u] = << <<"exists", "present">>, <<"connect", "refused">> >>
        /\ result[u] = <<"Ok", FALSE>>

----------------------------------------------------------------------------
(* Properties of the commands that run beside the toggles *)

\* The belief is the value last stored into it, false before any store.
BeliefIsLastStore ==
    is_recording = IF beliefLog = <<>> THEN FALSE
                   ELSE beliefLog[Len(beliefLog)].value

\* The tasks that stored a value into the belief.
Storers == {beliefLog[i].task : i \in 1..Len(beliefLog)}

\* C11: a probe (check_backend_status, is_backend_running) writes nothing on
\* any connection, stores nothing into the belief and never holds the lock,
\* whatever commands run beside it; the belief is always the last value a
\* command stored.
C11_ProbeIsReadOnly ==
    /\ BeliefIsLastStore
    /\ \A t \in Probes :
          /\ Writes(t) = {}
          /\ t \notin Storers
          /\ lock # t
          /\ \A i \in 1..Len(steps[t]) : steps[t][i][1] \in {"exists", "connect", "close"}

\* A probe invoked while a toggle held the lock has connected and returned
\* true; the toggle has written its command and the belief is true.
C11_Witness ==
    \E t \in Probes :
        /\ pc[t] = "done" /\ result[t] = <<"Ok", TRUE>>
        /\ heldAtCall[t] # 0
        /\ Len(wire) = 1 /\ wire[1].task # t
        /\ is_recording

\* The status queries invoked so far.
StatusQueries == {t \in Tasks : op[t] = "get_recording_status"}

\* C12: the step in which get_recording_status returns is taken with the
\* lock free, returns Ok of the belief as it is then, and leaves the belief,
\* the wire and the lock as they were; a status query never makes a channel
\* step (existence check, connect, write) and never stores into the belief.
C12_StatusReturnsBelief ==
    /\ [][\A t \in Tasks :
            (op[t] = "get_recording_status" /\ pc[t] # "done" /\ pc'[t] = "done")
              => /\ result'[t] = <<"Ok", is_recording>>
                 /\ lock = 0
                 /\ UNCHANGED <<is_recording, beliefLog, wire, steps, lock>>]_vars
    /\ [](\A t \in StatusQueries :
            /\ steps[t] = <<>>
            /\ Writes(t) = {}
            /\ sres[t] = "none"
            /\ t \notin Storers)

\* A status query invoked while a toggle held the lock has returned true,
\* the belief that toggle stored.
C12_Witness ==
    \E t \in StatusQueries :
        /\ pc[t] = "done" /\ result[t] = <<"Ok", TRUE>>
        /\ heldAtCall[t] # 0
        /\ is_recording
        /\ steps[t] = <<>>

\* C13 as stated: every value stored into the belief was stored by a
\* toggle_recording call.
C13_OnlyToggleStores ==
    \A i \in 1..Len(beliefLog) : op[beliefLog[i].task] = "toggle_recording"

\* The commands that store into the belief.
StoringOps == {"toggle_recording", "shortcut_pressed", "shortcut_released"}

\* C13 as amended: the belief is stored into only by a toggle_recording call
\* or a shortcut press or release handler task, in the step in which that
\* task, holding the lock, gets Ok from send_command and drops the lock (a
\* toggle stores the negation of what it read, a press true, a release
\* false); start_recording, stop_recording, the status query, the probe and
\* set_shortcut never store into it, and it never changes without a store.
C13_StoresOnlyUnderLockAfterOk ==
    /\ [][(beliefLog' # beliefLog \/ is_recording' # is_recording)
            => \E t \in Tasks :
                  /\ op[t] \in StoringOps
                  /\ lock = t /\ lock' = 0
                  /\ pc[t] = "flush" /\ pc'[t] = "done" /\ sres'[t] = "Ok"
                  /\ is_recording' = IF op[t] = "toggle_recording" THEN ~seen[t]
                                     ELSE op[t] = "shortcut_pressed"
                  /\ beliefLog' = Append(beliefLog,
                                         [task |-> t, value |-> is_recording'])]_vars
    /\ [](/\ BeliefIsLastStore
          /\ \A t \in Storers : op[t] \in StoringOps /\ sres[t] = "Ok")

\* A shortcut press handler stored true, then a toggle stored false, with
\* a start action, a status query, a probe or a shortcut setting possible
\* beside them.
C13_Witness ==
    /\ Len(beliefLog) = 2
    /\ op[beliefLog[1].task] = "shortcut_pressed" /\ beliefLog[1].value
    /\ op[beliefLog[2].task] = "toggle_recording" /\ ~beliefLog[2].value
    /\ ~is_recording

\* No command is in progress.
Quiescent == \A t \in Tasks : pc[t] \in {"idle", "done"}

\* C14: once the commands invoked (start_recording, stop_recording,
\* toggle_recording among them) have all returned and no send has failed,
\* the belief is true exactly when the last command written was start.
C14_BeliefMatchesLastCommand ==
    (Responsive /\ Quiescent /\ wire # <<>>)
      => is_recording = (wire[Len(wire)].token = "start")

\* How many channel steps named n task t has made.
StepCount(t, n) == Cardinality({i \in 1..Len(steps[t]) : steps[t][i][1] = n})

\* The toggle_recording calls invoked so far.
Toggles == {t \in Tasks : op[t] = "toggle_recording"}

\* C15: a command's send_command call makes at most one connection attempt,
\* at most one write and at most one flush, so at most one write of its
\* token reaches the wire, whether the call succeeds or fails; a returned
\* toggle_recording call has invoked send_command exactly once (one
\* existence check, one result), and a toggle waiting for the lock has not
\* invoked it.
C15_NoRetries ==
    /\ \A t \in Tasks :
          /\ StepCount(t, "exists") <= 1
          /\ StepCount(t, "connect") <= 1
          /\ StepCount(t, "write") <= 1
          /\ StepCount(t, "flush") <= 1
          /\ Cardinality(Writes(t)) <= 1
    /\ \A t \in Toggles :
          /\ pc[t] = "done" => StepCount(t, "exists") = 1 /\ sres[t] # "none"
          /\ pc[t] = "lock" => steps[t] = <<>> /\ sres[t] = "none"

\* One toggle failed at a refused connect, its only attempt, and another
\* failed at its only write.
C15_Witness ==
    \E t \in Toggles : \E u \in Toggles :
        /\ pc[t] = "done"
        /\ steps[t] = << <<"exists", "present">>, <<"connect", "refused">> >>
        /\ pc[u] = "done" /\ sres[u] = "SendFailed"
        /\ StepNames(u) = <<"exists", "connect", "write", "close">>

\* The outcomes of a send_command call.
SendOutcomes == {"Ok", "InvalidCommand", "BackendNotRunning", "ConnectionFailed",
                 "SendFailed"}

\* A send_command call of task t is in progress.
Sending(t) == pc[t] \in {"check", "connect", "write", "flush"}

\* C16: every send_command call in progress returns, whatever the endpoint
\* does meanwhile, with one of Ok, InvalidCommand, BackendNotRunning,
\* ConnectionFailed, SendFailed; a call has no outcome before it returns;
\* and a step that timed out is the last step of its call but the close:
\* the call returned ConnectionFailed after a connect timeout and
\* SendFailed after a write or flush timeout.
C16_SendAlwaysReturns ==
    /\ \A t \in Tasks : Sending(t) ~> (pc[t] = "done" /\ sres[t] \in SendOutcomes)
    /\ [](\A t \in Senders :
            /\ Sending(t) => sres[t] = "none"
            /\ pc[t] = "done" => /\ sres[t] \in SendOutcomes
                                 /\ result[t] = IF sres[t] = "Ok" THEN <<"Ok">>
                                                 ELSE <<"Err", sres[t]>>
            /\ \A i \in 1..Len(steps[t]) :
                  steps[t][i][2] = "timeout"
                    => /\ pc[t] = "done"
                       /\ \A j \in (i + 1)..Len(steps[t]) : steps[t][j][1] = "close"
                       /\ sres[t] = IF steps[t][i][1] = "connect"
                                    THEN "ConnectionFailed" ELSE "SendFailed")

\* One call returned ConnectionFailed after its connect timed out, another
\* SendFailed after its flush timed out.
C16_Witness ==
    \E t \in Senders : \E u \in Senders :
        /\ pc[t] = "done" /\ sres[t] = "ConnectionFailed"
        /\ steps[t] = << <<"exists", "present">>, <<"connect", "timeout">> >>
        /\ pc[u] = "done" /\ sres[u] = "SendFailed"
        /\ steps[u][Len(steps[u]) - 1] = <<"flush", "timeout">>

\* C17: a toggle_recording call holds the lock from its read of the belief,
\* through every step of its send_command call, until it returns: while it
\* is between read and return it is the holder, the belief is still the
\* value it read and its command is the one chosen from that value; before
\* the read and after the return it does not hold the lock; so at most one
\* toggle is between its read and its write.
C17_LockHeldAcrossSend ==
    /\ \A t \in Toggles :
          /\ Sending(t) => /\ lock = t
                           /\ is_recording = seen[t]
                           /\ command[t] = IF seen[t] THEN "stop" ELSE "start"
          /\ pc[t] \in {"lock", "done"} => lock # t
    /\ Cardinality({t \in Toggles : Sending(t)}) <= 1
    /\ lock # 0 => lock \in Toggles /\ Sending(lock)

\* One toggle is at its write holding the lock; the toggles of all the
\* other tasks wait for the lock.
C17_Witness ==
    \E t \in Toggles :
        /\ pc[t] = "write" /\ lock = t
        /\ \A u \in Tasks \ {t} : op[u] = "toggle_recording" /\ pc[u] = "lock"

\* C18: a probe never waits for the lock: whoever holds the lock, a probe
\* that has been invoked can take its existence check, and one that found
\* the path can take its connect; and a probe never holds the lock.  So a
\* probe invoked while a toggle holds the lock can return before the toggle
\* does.
C18_ProbeNeverWaitsForLock ==
    \A t \in Probes :
        /\ pc[t] = "probe" => ENABLED ProbeCheck(t)
        /\ pc[t] = "connect" => ENABLED ProbeConnect(t)
        /\ lock # t

\* A probe invoked while a toggle held the lock has returned, and that
\* toggle still holds the lock, in the middle of its send.
C18_Witness ==
    \E t \in Probes : \E u \in Toggles :
        /\ heldAtCall[t] = u /\ lock = u
        /\ pc[t] = "done" /\ Len(steps[t]) >= 2
        /\ pc[u] = "write"

\* The start_recording and stop_recording calls invoked so far.
FixedSenders == {t \in Tasks : op[t] \in {"start_recording", "stop_recording"}}

\* C20: a start_recording call sends start and a stop_recording call stop,
\* whatever the belief; such a call never waits for the lock nor holds it
\* (it is in its send_command call from its invocation until it returns),
\* writes no token but its own, and stores nothing into the belief on any
\* outcome: the belief is always the last value another command stored.
C20_StartStopBypassLock ==
    /\ BeliefIsLastStore
    /\ \A t \in FixedSenders :
          /\ command[t] = IF op[t] = "start_recording" THEN "start" ELSE "stop"
          /\ pc[t] \in {"check", "connect", "write", "flush", "done"}
          /\ lock # t
          /\ t \notin Storers
          /\ \A i \in Writes(t) : wire[i].token = command[t]
          /\ pc[t] = "done" => result[t] = IF sres[t] = "Ok" THEN <<"Ok">>
                                           ELSE <<"Err", sres[t]>>

\* While a toggle that wrote start still holds the lock, at its flush, a
\* start_recording call has written start after it and returned Ok; the
\* belief is still false.
C20_Witness ==
    \E t \in Toggles : \E u \in FixedSenders :
        /\ lock = t /\ pc[t] = "flush"
        /\ pc[u] = "done" /\ sres[u] = "Ok"
        /\ Len(wire) = 2
        /\ wire[1] = [task |-> t, token |-> "start", whole |-> TRUE]
        /\ wire[2] = [task |-> u, token |-> "start", whole |-> TRUE]
        /\ ~is_recording

----------------------------------------------------------------------------
(* Properties of set_shortcut *)

\* C19: in the step in which a set_shortcut call returns, if it returns Ok
\* the current shortcut in memory and the shortcut in the settings file are
\* both the requested one, and if it returns an error both are what they
\* were before.
C19_ShortcutMemoryMatchesSettings ==
    [][\A t \in Tasks :
          (op'[t] = "set_shortcut" /\ pc[t] # "done" /\ pc'[t] = "done")
            => IF result'[t] = <<"Ok">>
               THEN /\ current_shortcut' = shortcut'[t]
                    /\ settings' = shortcut'[t]
               ELSE /\ current_shortcut' = current_shortcut
                    /\ settings' = settings]_vars

----------------------------------------------------------------------------
(* Properties of the shortcut handler *)

\* The handler tasks spawned so far.
Handlers == {t \in Tasks : op[t] \in {"shortcut_pressed", "shortcut_released"}}

\* C21: a handler task reads the belief in the step in which it gets the
\* lock.  A press that reads false goes on, holding the lock, to send
\* start, and a release that reads true to send stop; a press that reads
\* true and a release that reads false end in that step with the lock
\* free, no channel step made, nothing written and the belief as it was.
\* A handler that sends writes only its own token and stores its value
\* (true for a press, false for a release) exactly when its send returned
\* Ok; otherwise the belief stays what it read.
C21_HandlersGuardedByBelief ==
    /\ [][\A t \in Tasks :
            (t \in Handlers /\ pc[t] = "lock" /\ pc'[t] # "lock")
              => /\ lock = 0
                 /\ UNCHANGED <<is_recording, beliefLog, wire, steps>>
                 /\ IF is_recording = (op[t] = "shortcut_released")
                    THEN /\ pc'[t] = "check" /\ lock' = t
                         /\ command'[t] = IF op[t] = "shortcut_pressed"
                                          THEN "start" ELSE "stop"
                    ELSE /\ pc'[t] = "done" /\ lock' = 0]_vars
    /\ [][\A t \in Tasks :
            (t \in Handlers /\ Sending(t) /\ pc'[t] = "done")
              => /\ lock = t /\ lock' = 0
                 /\ is_recording = (op[t] = "shortcut_released")
                 /\ is_recording' = IF sres'[t] = "Ok"
                                    THEN op[t] = "shortcut_pressed"
                                    ELSE is_recording]_vars
    /\ [](\A t \in Handlers :
            /\ \A i \in Writes(t) :
                  wire[i].token = IF op[t] = "shortcut_pressed" THEN "start" ELSE "stop"
            /\ t \in Storers <=> sres[t] = "Ok"
            /\ (pc[t] = "done" /\ sres[t] = "none")
                  => steps[t] = <<>> /\ Writes(t) = {})

\* One press has sent start and stored true; a release that read false and
\* another press that read true have both ended without sending.
C21_Witness ==
    \E a \in Handlers : \E t \in Handlers : \E u \in Handlers :
        /\ op[a] = "shortcut_pressed" /\ sres[a] = "Ok" /\ a \in Storers
        /\ op[t] = "shortcut_pressed" /\ pc[t] = "done" /\ sres[t] = "none" /\ seen[t]
        /\ op[u] = "shortcut_released" /\ pc[u] = "done" /\ sres[u] = "none" /\ ~seen[u]
        /\ Len(wire) = 1 /\ is_recording

\* C22: from belief false, after one press of the key and its release,
\* no send having failed, once both handler tasks have ended the belief is
\* false and the last command written is stop.
C22_ReleaseEndsRecording ==
    (/\ Cardinality(Handlers) = 2
     /\ \A t \in Handlers : pc[t] = "done"
     /\ Responsive)
      => /\ ~is_recording
         /\ wire # <<>>
         /\ wire[Len(wire)].token = "stop"

----------------------------------------------------------------------------
(* Properties of the lock *)

\* Some call has been invoked and has not returned.
Pending == \E t \in Tasks : pc[t] \notin {"idle", "done"}

\* C23: the lock is held only by a call in the middle of its send and by
\* no call that has returned, whatever it returned; while a call is
\* pending some call can take a step (no deadlock); and every toggle or
\* status call waiting for the lock gets it and returns.
C23_LockAlwaysReleased ==
    /\ [](/\ lock # 0 => Sending(lock)
          /\ \A t \in Tasks : pc[t] = "done" => lock # t
          /\ Pending => \E t \in Tasks : ENABLED LockStep(t))
    /\ \A t \in Callers : (pc[t] = "lock") ~> (pc[t] = "done")

\* A toggle has returned SendFailed, and a status query invoked while it
\* held the lock has got the lock after it and returned.
C23_Witness ==
    \E t \in Toggles : \E u \in StatusQueries :
        /\ pc[t] = "done" /\ sres[t] = "SendFailed"
        /\ heldAtCall[u] = t /\ pc[u] = "done"
        /\ lock = 0

\* C24: a status query invoked while a toggle held the lock waits at the
\* lock, with no result, as long as that toggle has not returned, so it has
\* returned only after the toggle.  If the toggle succeeded and its store is
\* the last one, the query returned the negation of what the toggle read;
\* if the toggle failed and nothing was stored since it read, the query
\* returned what the toggle read.
C24_StatusWaitsForToggle ==
    \A t \in StatusQueries : \A u \in Toggles :
        heldAtCall[t] = u
          => /\ pc[u] # "done" => pc[t] = "lock" /\ result[t] = <<>>
             /\ pc[t] = "done" => pc[u] = "done"
             /\ (pc[t] = "done" /\ sres[u] = "Ok"
                    /\ beliefLog[Len(beliefLog)].task = u)
                  => result[t] = <<"Ok", ~seen[u]>>
             /\ (pc[t] = "done" /\ sres[u] # "Ok"
                    /\ Len(beliefLog) = IF seen[u] THEN 1 ELSE 0)
                  => result[t] = <<"Ok", seen[u]>>

\* A status query invoked while a toggle was in its send has returned true
\* after that toggle returned Ok(true).
C24_Witness ==
    \E t \in StatusQueries : \E u \in Toggles :
        /\ heldAtCall[t] = u
        /\ pc[t] = "done" /\ pc[u] = "done"
        /\ result[u] = <<"Ok", TRUE>>
        /\ result[t] = <<"Ok", TRUE>>

----------------------------------------------------------------------------
(* Properties of the startup *)

\* The task that ran the setup closure.
Setups == {t \in Tasks : op[t] = "setup"}

====
